---- MODULE Spec2Model ----
(***************************************************************************)
(* Order lifecycle and payment reconciliation of ashen-emporium:           *)
(* orders/views.py (checkout), cart/cart.py (Cart), payments/views.py      *)
(* (start_checkout, payment_success, payment_cancel, stripe_webhook),      *)
(* orders/admin.py (mark_fulfilled, OrderAdmin), catalog/admin.py (the     *)
(* product actions), orders/models.py (Order, OrderItem) and               *)
(* catalog/models.py (Product).                                            *)
(*                                                                         *)
(* The database is modelled as committed rows (orders, stock) plus, for    *)
(* every request inside `with transaction.atomic()`, a buffer of its       *)
(* uncommitted writes.  A row written by an open transaction is locked     *)
(* against other writers until that transaction commits or rolls back;     *)
(* plain reads never block and see committed rows plus the reader's own    *)
(* writes.  The select_for_update() of stripe_webhook runs before the      *)
(* atomic block is entered, so whatever lock it takes ends with that       *)
(* statement: it is modelled as a plain read.  Statements outside an       *)
(* atomic block (all of checkout, the admin actions) commit one by one.    *)
(* Products are identified by their SKU; the key of a cart entry, the      *)
(* product id, is one-to-one with it.                                      *)
(***************************************************************************)
EXTENDS Integers, Sequences, FiniteSets, TLC

\* ---------------------------------------------------------------- bounds
NumOrders == 2
NumReqs == 2
MaxStock == 2
MaxQty == 1
ClampMax == 7
MaxCart == 2
MaxAdmin == 1
MaxSessions == 1
MaxStored == 3

Orders == 1..NumOrders
Reqs == 1..NumReqs
Users == {"u1", "u2"}

\* SKUs with a live Product row, and SKUs an OrderItem snapshot may carry
\* ("Z" is a SKU whose product is gone from the catalog).
ProductSKUs == {"X", "Y"}
ItemSKUs == ProductSKUs \cup {"Z"}

\* Order.Status
DRAFT == "draft"
PLACED == "placed"
PAID == "paid"
FULFILLED == "fulfilled"
CANCELLED == "cancelled"
Status == {DRAFT, PLACED, PAID, FULFILLED, CANCELLED}

\* Python values of the event's session object: a missing key, and null.
Absent == "<absent>"
None == "<None>"

VARIABLES
    orders,          \* committed Order rows: id -> [status, stripe_session_id, stripe_payment_intent_id]
    items,           \* OrderItem snapshots: order id -> sequence of [sku, qty]
    stock,           \* committed Product.stock_qty by SKU
    webhook_secret,  \* settings.STRIPE_WEBHOOK_SECRET is set
    serial,          \* the server handles one webhook request at a time
    req,             \* the webhook requests: event, position, locals and uncommitted writes
    stock0,          \* history: the stock before any delivery
    paid_commits,    \* history: per order, the committed transitions to PAID
    decrements,      \* history: per order line, the committed product.save calls made for it
    created,         \* the ids of the Order rows that exist
    order_meta,      \* Order rows, the columns checkout sets: id -> [user, total_pence]
    products,        \* Product rows: SKU -> [name, price_pence, is_active]
    cart,            \* session["cart"] of every user: sequence of [pid, qty]
    co,              \* the checkout request of every user: position, locals, response
    page,            \* the last response to a request for one of the payment pages
    gateway,         \* the Checkout Sessions created at Stripe, per order
    stripe_secret_key, \* settings.STRIPE_SECRET_KEY is set
    admin_acts       \* the product actions the admin has run

\* The state of the shop front: orders as checkout makes them, the catalog, the
\* carts and the customers' requests.
shop == <<created, order_meta, products, cart, co, page, gateway, stripe_secret_key,
          admin_acts>>

vars == <<orders, items, stock, webhook_secret, serial, req, stock0, paid_commits, decrements,
          shop>>

\* An OrderItem row.
OrderItem(product_name, sku, unit_price_pence, qty, line_total_pence) ==
    [product_name |-> product_name, sku |-> sku, unit_price_pence |-> unit_price_pence,
     qty |-> qty, line_total_pence |-> line_total_pence]

\* Product.name and Product.price_pence of the catalog's products as first listed.
ListedName(sku) == IF sku = "X" THEN "Xiphos" ELSE IF sku = "Y" THEN "Yumi" ELSE "Zweihander"
ListedPrice(sku) == IF sku = "X" THEN 2 ELSE 3

\* The OrderItem of a line of qty pieces of sku bought as first listed.
Line(sku, qty) ==
    OrderItem(ListedName(sku), sku, ListedPrice(sku), qty, ListedPrice(sku) * qty)

Max(a, b) == IF a >= b THEN a ELSE b

\* session.get(key, default)
DictGet(value, default) == IF value = Absent THEN default ELSE value

\* Python `value or ""`
OrEmpty(value) == IF value = None THEN "" ELSE value

\* What stripe.Webhook.construct_event does with a request.
Verifications == {"ok", "ValueError", "SignatureVerificationError"}

COMPLETED == "checkout.session.completed"
EventTypes == {COMPLETED, "payment_intent.created"}

\* metadata.order_id of an event: 0 is a missing or empty value, NumOrders + 1 an
\* id that matches no order.
EventOrderIds == 0..(NumOrders + 1)

\* The session objects (event["data"]["object"]) the events carry.
NoSession == [id |-> Absent, payment_intent |-> Absent]
Sessions == {[id |-> "cs_evt", payment_intent |-> "pi_evt"],
             [id |-> "cs_evt", payment_intent |-> None],
             NoSession}

\* The requests the endpoint receives: what construct_event makes of the body
\* and signature and, when it returns an event, the event's type and order_id
\* (an event of another type names order 1 or no order).
NoEvent == [verification |-> "", type |-> "", order_id |-> 0]
Events ==
    {[verification |-> v, type |-> "", order_id |-> 0] : v \in Verifications \ {"ok"}}
      \cup [verification : {"ok"}, type : {COMPLETED}, order_id : EventOrderIds]
      \cup [verification : {"ok"}, type : EventTypes \ {COMPLETED}, order_id : {0, 1}]

\* Verified completion events the view cannot read: order_id NonNumericId
\* stands for a metadata.order_id that is not a number ("abc"), NoDataObject
\* for an event without data.object.
NonNumericId == -1
NoDataObject == -2
MalformedEvents ==
    [verification : {"ok"}, type : {COMPLETED}, order_id : {NonNumericId, NoDataObject}]

NoWrites == [s \in ProductSKUs |-> -1]

\* A Product row as first listed, the columns the shop front shows.
Listed(sku) ==
    [name |-> ListedName(sku), price_pence |-> ListedPrice(sku), is_active |-> TRUE,
     exists |-> TRUE]

\* No Product row: a product that was deleted, or a product object not loaded.
NoRow == [name |-> "", price_pence |-> 0, is_active |-> FALSE, exists |-> FALSE]

NoOrder == [status |-> DRAFT, stripe_session_id |-> "", stripe_payment_intent_id |-> ""]

IdleReq == [pc |-> "idle", event |-> NoEvent, session |-> NoSession, order |-> NoOrder,
            lines |-> <<>>, idx |-> 0, product |-> -1,
            wrote_order |-> FALSE, w_stock |-> NoWrites, w_lines |-> {},
            response |-> 0]

\* A request that was answered: its locals are gone.
DoneReq(event, response) == [IdleReq EXCEPT !.pc = "done", !.event = event,
                                            !.response = response]

\* An order as checkout and start_checkout leave it: PLACED, with the
\* identifiers of its Stripe session.
StoredOrder == [status |-> PLACED, stripe_session_id |-> "cs_old",
                stripe_payment_intent_id |-> "pi_old"]

\* The line list of order o when its lines ask for q each: odd orders have
\* one line, even orders three lines of which the second names a SKU without
\* product.
ItemList(o, q) ==
    IF o % 2 = 1
    THEN <<Line("X", q)>>
    ELSE <<Line("X", q), Line("Z", q), Line("Y", q)>>

\* sum(line_total_pence) of the lines i, i + 1, ... of a list of items.
RECURSIVE Total(_, _)
Total(lines, i) ==
    IF i > Len(lines) THEN 0 ELSE lines[i].line_total_pence + Total(lines, i + 1)

\* A checkout request that has not arrived.
IdleCheckout == [pc |-> "idle", method |-> "", data |-> <<>>, items |-> <<>>,
                 total_pence |-> 0, order |-> 0, idx |-> 0, response |-> "", named |-> ""]

NoPage == [view |-> "", response |-> ""]

\* No customer is at the shop front: the catalog as first listed, empty carts,
\* no request.
ShopClosed ==
    /\ products = [s \in ProductSKUs |-> Listed(s)]
    /\ cart = [u \in Users |-> <<>>]
    /\ co = [u \in Users |-> IdleCheckout]
    /\ page = NoPage
    /\ gateway = [o \in Orders |-> 0]
    /\ stripe_secret_key = TRUE
    /\ admin_acts = 0

\* The rows before any delivery: every line asks for the same quantity, up to
\* maxQty, and every product has the same stock, up to maxStock.
InitWith(maxQty, maxStock, oneAtATime) ==
    /\ ShopClosed
    /\ created = Orders
    /\ orders = [o \in Orders |-> StoredOrder]
    /\ \E q \in 0..maxQty :
          /\ items = [o \in Orders |-> ItemList(o, q)]
          /\ order_meta = [o \in Orders |->
                               [user |-> "u1", total_pence |-> Total(ItemList(o, q), 1)]]
    /\ \E n \in 0..maxStock : stock = [s \in ProductSKUs |-> n]
    /\ webhook_secret \in BOOLEAN
    /\ serial = oneAtATime
    /\ req = [r \in Reqs |-> IdleReq]
    /\ stock0 = stock
    /\ paid_commits = [o \in Orders |-> 0]
    /\ decrements = [o \in Orders |-> [i \in 1..Len(items[o]) |-> 0]]

\* Requests are handled concurrently.
Init == InitWith(MaxQty, MaxStock, FALSE)

\* Requests are handled one after the other.
InitSerial == InitWith(MaxQty, MaxStock, TRUE)

\* ------------------------------------------------------- stripe_webhook
\* Mutant: a missing secret is not checked.
SecretMissingIgnored == FALSE

\* if not webhook_secret: return HttpResponseBadRequest(...)
SecretMissing == ~webhook_secret

\* No request other than r is being handled.
Alone(r) == \A q \in Reqs \ {r} : req[q].pc \in {"idle", "done"}

\* Request r reaches the view (requests are numbered as they arrive); a serial
\* server takes it once the requests before it are answered.
Arrives(r) ==
    /\ req[r].pc = "idle"
    /\ \A q \in Reqs : q < r => req[q].pc # "idle"
    /\ serial => Alone(r)

\* stripe_webhook, lines 111-114.
RejectNoSecret(r) ==
    /\ Arrives(r)
    /\ SecretMissing
    /\ \E event \in Events : req' = [req EXCEPT ![r] = DoneReq(event, 400)]
    /\ UNCHANGED <<orders, items, stock, webhook_secret, serial, stock0, paid_commits,
                   decrements, shop>>

\* Mutant: the exceptions of construct_event are swallowed.
VerifiedAlways(event) == TRUE

\* stripe.Webhook.construct_event returns an event (it raises otherwise).
Verified(event) == event.verification = "ok"

\* The response to a request construct_event raises on.
VerificationResponse(verification) == 400

\* stripe_webhook, lines 116-121.
RejectInvalid(r) ==
    /\ Arrives(r)
    /\ ~SecretMissing
    /\ \E event \in Events :
          /\ ~Verified(event)
          /\ req' = [req EXCEPT ![r] =
                        DoneReq(event, VerificationResponse(event.verification))]
    /\ UNCHANGED <<orders, items, stock, webhook_secret, serial, stock0, paid_commits,
                   decrements, shop>>

\* Mutant: the event type is not checked.
IsCompletionAny(type) == TRUE

\* if event["type"] == "checkout.session.completed"
IsCompletion(type) == type = COMPLETED

\* stripe_webhook, lines 124 and 149: an event of any other type.
AckOtherType(r) ==
    /\ Arrives(r)
    /\ ~SecretMissing
    /\ \E event \in Events :
          /\ Verified(event)
          /\ ~IsCompletion(event.type)
          /\ req' = [req EXCEPT ![r] = DoneReq(event, 200)]
    /\ UNCHANGED <<orders, items, stock, webhook_secret, serial, stock0, paid_commits,
                   decrements, shop>>

\* if order_id: ... filter(id=order_id).first() finds an order
Resolves(order_id) == order_id # 0 /\ order_id \in created

\* Mutant: an event that names no order is refused.
UnresolvableRefused(order_id) == IF order_id = 0 THEN 400 ELSE 404

\* Line 149, reached past `if order_id:` and `if order and ...`: the response
\* to an event that names no order, or an order that does not exist.
UnresolvableResponse(order_id) == 200

\* stripe_webhook, lines 126-131 and 149: no order_id, or no such order.
AckUnresolvable(r) ==
    /\ Arrives(r)
    /\ ~SecretMissing
    /\ \E event \in Events :
          /\ Verified(event)
          /\ IsCompletion(event.type)
          /\ ~Resolves(event.order_id)
          /\ req' = [req EXCEPT ![r] =
                        DoneReq(event, UnresolvableResponse(event.order_id))]
    /\ UNCHANGED <<orders, items, stock, webhook_secret, serial, stock0, paid_commits,
                   decrements, shop>>

\* Mutant: the status check is dropped.
NeedsTransitionAlways(order) == TRUE

\* if order and order.status != Order.Status.PAID
NeedsTransition(order) == order.status # PAID

\* stripe_webhook, lines 129-131: the order is read (the lock of
\* select_for_update ends with the statement), and an order that needs no
\* transition is acknowledged.
ReadOrder(r) ==
    /\ Arrives(r)
    /\ ~SecretMissing
    /\ \E event \in Events, session \in Sessions :
          /\ Verified(event)
          /\ IsCompletion(event.type)
          /\ Resolves(event.order_id)
          /\ IF NeedsTransition(orders[event.order_id])
             THEN req' = [req EXCEPT ![r] =
                             [IdleReq EXCEPT !.pc = "save_order", !.event = event,
                                             !.session = session,
                                             !.order = orders[event.order_id]]]
             ELSE req' = [req EXCEPT ![r] = DoneReq(event, 200)]
    /\ UNCHANGED <<orders, items, stock, webhook_secret, serial, stock0, paid_commits,
                   decrements, shop>>

\* Mutant: the session's identifiers are not recorded.
MarkedPaidOnly(order, session) == [order EXCEPT !.status = PAID]

\* Lines 134-136: the fields of the order object before order.save.
MarkedPaid(order, session) ==
    [status |-> PAID,
     stripe_session_id |-> DictGet(session.id, order.stripe_session_id),
     stripe_payment_intent_id |->
         OrEmpty(DictGet(session.payment_intent, order.stripe_payment_intent_id))]

\* The row of order oid is write-locked by an open transaction other than r's.
OrderLocked(r, oid) ==
    \E q \in Reqs \ {r} : req[q].wrote_order /\ req[q].event.order_id = oid

\* The row of product sku is write-locked by an open transaction other than r's.
ProductLocked(r, sku) ==
    \E q \in Reqs \ {r} : req[q].w_stock[sku] # -1

\* The position after line idx of the loop over order.items.all(), the rows
\* the queryset fetched when the loop began.
AfterLine(f, idx) ==
    IF idx < Len(f.lines)
    THEN [f EXCEPT !.pc = "read_product", !.idx = idx + 1, !.product = -1]
    ELSE [f EXCEPT !.pc = "commit", !.idx = 0, !.product = -1]

\* Mutant: a line without product ends the loop (`break`).
SkipRest(f, idx) == [f EXCEPT !.pc = "commit", !.idx = 0, !.product = -1]

\* `if not product: continue`: the loop goes on with the next line.
SkipLine(f, idx) == AfterLine(f, idx)

\* stripe_webhook, lines 132-137: the atomic block is entered and the order
\* saved with status PAID and the session's identifiers.
SaveOrder(r) ==
    /\ req[r].pc = "save_order"
    /\ ~OrderLocked(r, req[r].event.order_id)
    /\ req' = [req EXCEPT ![r] =
                  AfterLine([req[r] EXCEPT
                                !.order = MarkedPaid(req[r].order, req[r].session),
                                !.lines = items[req[r].event.order_id],
                                !.wrote_order = TRUE], 0)]
    /\ UNCHANGED <<orders, items, stock, webhook_secret, serial, stock0, paid_commits,
                   decrements, shop>>

\* The stock_qty request r reads for sku: its own uncommitted write, else the
\* committed row.
ReadStock(r, sku) ==
    IF req[r].w_stock[sku] # -1 THEN req[r].w_stock[sku] ELSE stock[sku]

\* stripe_webhook, lines 140-144: Product.objects.filter(sku=item.sku).first(),
\* and `continue` when there is no such product.
ReadProduct(r) ==
    /\ req[r].pc = "read_product"
    /\ LET item == req[r].lines[req[r].idx]
       IN IF item.sku \in ProductSKUs /\ products[item.sku].exists
          THEN req' = [req EXCEPT ![r].pc = "save_product",
                                  ![r].product = ReadStock(r, item.sku)]
          ELSE req' = [req EXCEPT ![r] = SkipLine(req[r], req[r].idx)]
    /\ UNCHANGED <<orders, items, stock, webhook_secret, serial, stock0, paid_commits,
                   decrements, shop>>

\* Mutant: the decrement is not clamped.
DecrementedUnclamped(stock_qty, qty) == stock_qty - qty

\* product.stock_qty = max(product.stock_qty - item.qty, 0)
Decremented(stock_qty, qty) == Max(stock_qty - qty, 0)

\* stripe_webhook, lines 145-146: product.save(update_fields=["stock_qty"])
\* writes the decremented stock_qty and no other column; on a row deleted
\* since it was read the save updates nothing and raises DatabaseError, which
\* rolls the block back and leaves the view (a 500 response).
SaveProduct(r) ==
    /\ req[r].pc = "save_product"
    /\ LET item == req[r].lines[req[r].idx]
       IN /\ ~ProductLocked(r, item.sku)
          /\ IF products[item.sku].exists
             THEN req' = [req EXCEPT ![r] =
                             AfterLine([req[r] EXCEPT
                                           !.w_stock[item.sku] =
                                               Decremented(req[r].product, item.qty),
                                           !.w_lines = @ \cup {req[r].idx}], req[r].idx)]
             ELSE req' = [req EXCEPT ![r] = DoneReq(req[r].event, 500)]
    /\ UNCHANGED <<orders, items, stock, webhook_secret, serial, stock0, paid_commits,
                   decrements, shop>>

\* The committed rows with the writes of r's transaction applied.
WithWrites(r) ==
    [orders |-> IF req[r].wrote_order
                THEN [orders EXCEPT ![req[r].event.order_id] = req[r].order]
                ELSE orders,
     stock |-> [s \in ProductSKUs |->
                   IF req[r].w_stock[s] # -1 THEN req[r].w_stock[s] ELSE stock[s]]]

\* Mutant: the writes are made outside transaction.atomic() and stay.
RolledBackNothing(r) == WithWrites(r)

\* The committed rows after the atomic block of r is left by an exception:
\* transaction.atomic() rolls every write of the block back.
RolledBack(r) == [orders |-> orders, stock |-> stock]

\* stripe_webhook, lines 132-149: the atomic block is left normally, its
\* writes commit together, and the request is answered 200.
Commit(r) ==
    /\ req[r].pc = "commit"
    /\ orders' = WithWrites(r).orders
    /\ stock' = WithWrites(r).stock
    /\ paid_commits' = [paid_commits EXCEPT ![req[r].event.order_id] = @ + 1]
    /\ decrements' = [decrements EXCEPT ![req[r].event.order_id] =
                         [i \in DOMAIN @ |-> IF i \in req[r].w_lines THEN @[i] + 1 ELSE @[i]]]
    /\ req' = [req EXCEPT ![r] = DoneReq(req[r].event, 200)]
    /\ UNCHANGED <<items, webhook_secret, serial, stock0, shop>>

\* A statement of the atomic block raises a database error: the block is
\* rolled back and the exception leaves the view (a 500 response).
PersistenceFailure(r) ==
    /\ req[r].pc \in {"save_order", "read_product", "save_product", "commit"}
    /\ orders' = RolledBack(r).orders
    /\ stock' = RolledBack(r).stock
    /\ req' = [req EXCEPT ![r] = DoneReq(req[r].event, 500)]
    /\ UNCHANGED <<items, webhook_secret, serial, stock0, paid_commits, decrements, shop>>

\* stripe_webhook, lines 125 and 129: event["data"]["object"] raises KeyError
\* on an event without data.object, and filter(id=order_id) raises ValueError
\* on an order_id that is not a number; neither is caught, and the exception
\* leaves the view (a 500 response).
RaiseUnhandled(r) ==
    /\ Arrives(r)
    /\ ~SecretMissing
    /\ \E event \in MalformedEvents : req' = [req EXCEPT ![r] = DoneReq(event, 500)]
    /\ UNCHANGED <<orders, items, stock, webhook_secret, serial, stock0, paid_commits,
                   decrements, shop>>

\* The view on the events whose data.object and order_id it can read.
stripe_webhook(r) ==
    \/ RejectNoSecret(r)
    \/ RejectInvalid(r)
    \/ AckOtherType(r)
    \/ AckUnresolvable(r)
    \/ ReadOrder(r)
    \/ SaveOrder(r)
    \/ ReadProduct(r)
    \/ SaveProduct(r)
    \/ Commit(r)
    \/ PersistenceFailure(r)

\* ------------------------------------------------------------ the admin
\* Mutant: the update is not filtered by status.
FulfilledAny(order) == [order EXCEPT !.status = FULFILLED]

\* queryset.filter(status=Order.Status.PAID).update(status=Order.Status.FULFILLED)
Fulfilled(order) ==
    IF order.status = PAID THEN [order EXCEPT !.status = FULFILLED] ELSE order

\* orders/admin.py, mark_fulfilled on the selected orders: one UPDATE, which
\* waits for rows an open transaction has written.
mark_fulfilled(queryset) ==
    /\ \A o \in queryset : ~OrderLocked(0, o)
    /\ \E o \in queryset : orders[o].status = PAID
    /\ orders' = [o \in Orders |-> IF o \in queryset THEN Fulfilled(orders[o]) ELSE orders[o]]
    /\ UNCHANGED <<items, stock, webhook_secret, serial, req, stock0, paid_commits,
                   decrements, shop>>

\* The status field of OrderAdmin's change form: a PLACED or PAID order is
\* moved to CANCELLED.
cancel_order(o) ==
    /\ ~OrderLocked(0, o)
    /\ orders[o].status \in {PLACED, PAID}
    /\ orders' = [orders EXCEPT ![o].status = CANCELLED]
    /\ UNCHANGED <<items, stock, webhook_secret, serial, req, stock0, paid_commits,
                   decrements, shop>>

\* --------------------------------------------------- the cart and checkout
CartLine(pid, qty) == [pid |-> pid, qty |-> qty]

\* A CartItem: the Product object as the query of Cart.items() loaded it, and
\* the quantity of the cart entry.
CartItem(pid, qty) ==
    [product |-> [sku |-> pid, name |-> products[pid].name,
                  price_pence |-> products[pid].price_pence, stock_qty |-> stock[pid]],
     qty |-> qty]

\* Cart.items() on the entries i, i + 1, ...: one CartItem per entry whose
\* product exists and is active and whose qty is positive, in the cart's order.
RECURSIVE CartItems(_, _)
CartItems(entries, i) ==
    IF i > Len(entries) THEN <<>>
    ELSE (IF /\ entries[i].pid \in ProductSKUs
             /\ products[entries[i].pid].exists
             /\ products[entries[i].pid].is_active
             /\ entries[i].qty > 0
          THEN <<CartItem(entries[i].pid, entries[i].qty)>>
          ELSE <<>>) \o CartItems(entries, i + 1)

\* CartItem.line_total_pence
LineTotal(item) == item.product.price_pence * item.qty

\* sum(i.line_total_pence for i in ...) over the items i, i + 1, ...
RECURSIVE SumLineTotals(_, _)
SumLineTotals(list, i) ==
    IF i > Len(list) THEN 0 ELSE LineTotal(list[i]) + SumLineTotals(list, i + 1)

\* Cart.total_pence(): the sum over a fresh Cart.items().
TotalPence(entries) == SumLineTotals(CartItems(entries, 1), 1)

\* Mutant: an empty basket is not turned away.
YieldsNothingIgnored(list) == FALSE

\* if not items
YieldsNothing(list) == list = <<>>

\* Mutant: the preflight only asks whether the product is in stock at all.
StockShortOfAny(item) == item.product.stock_qty <= 0

\* if item.product.stock_qty < item.qty
StockShort(item) == item.product.stock_qty < item.qty

\* The first item, from item i on, the stock check stops at; 0 when there is none.
RECURSIVE FirstShort(_, _)
FirstShort(list, i) ==
    IF i > Len(list) THEN 0
    ELSE IF StockShort(list[i]) THEN i
    ELSE FirstShort(list, i + 1)

\* A checkout request that was answered.
DoneCheckout(f, response, named) ==
    [f EXCEPT !.pc = "done", !.response = response, !.named = named]

\* checkout, lines 11-16: Cart(request.session) loads the session's cart and
\* its items are listed; an empty list is redirected to the product list.
ListItems(u) ==
    /\ co[u].pc = "idle"
    /\ \E method \in {"GET", "POST"} :
          LET list == CartItems(cart[u], 1)
              f == [co[u] EXCEPT !.method = method, !.data = cart[u], !.items = list]
          IN co' = [co EXCEPT ![u] =
                       IF YieldsNothing(list)
                       THEN DoneCheckout(f, "redirect:product_list", "")
                       ELSE [f EXCEPT !.pc = "total"]]
    /\ UNCHANGED <<orders, items, stock, webhook_secret, serial, req, stock0, paid_commits,
                   decrements, created, order_meta, products, cart, page, gateway,
                   stripe_secret_key, admin_acts>>

\* checkout, lines 18-28 and 51-57: the total is computed from a fresh listing
\* of the cart; a GET is answered with the checkout page, a POST runs the
\* stock check on the items listed at line 12.
TotalAndPreflight(u) ==
    /\ co[u].pc = "total"
    /\ LET f == [co[u] EXCEPT !.total_pence = TotalPence(co[u].data)]
           short == FirstShort(f.items, 1)
       IN co' = [co EXCEPT ![u] =
                    IF f.method = "GET" THEN DoneCheckout(f, "render:checkout", "")
                    ELSE IF short # 0
                         THEN DoneCheckout(f, "redirect:cart_detail",
                                           f.items[short].product.name)
                    ELSE [f EXCEPT !.pc = "create_order"]]
    /\ UNCHANGED <<orders, items, stock, webhook_secret, serial, req, stock0, paid_commits,
                   decrements, created, order_meta, products, cart, page, gateway,
                   stripe_secret_key, admin_acts>>

\* Mutant: the order is created as already paid.
PlacedOrderPaid == [status |-> PAID, stripe_session_id |-> "", stripe_payment_intent_id |-> ""]

\* Order.objects.create(..., status=Order.Status.PLACED): the Stripe columns
\* take their default.
PlacedOrder == [status |-> PLACED, stripe_session_id |-> "", stripe_payment_intent_id |-> ""]

\* The id the database gives the next Order row.
NextOrderId == Cardinality(created) + 1

\* checkout, lines 30-35.
CreateOrder(u) ==
    /\ co[u].pc = "create_order"
    /\ NextOrderId \in Orders
    /\ created' = created \cup {NextOrderId}
    /\ orders' = [orders EXCEPT ![NextOrderId] = PlacedOrder]
    /\ order_meta' = [order_meta EXCEPT ![NextOrderId] =
                          [user |-> u, total_pence |-> co[u].total_pence]]
    /\ co' = [co EXCEPT ![u].pc = "create_item", ![u].order = NextOrderId, ![u].idx = 1]
    /\ UNCHANGED <<items, stock, webhook_secret, serial, req, stock0, paid_commits,
                   decrements, products, cart, page, gateway, stripe_secret_key, admin_acts>>

\* Mutant: the line total is copied from the unit price.
SnapshotUnitOnly(item) ==
    OrderItem(item.product.name, item.product.sku, item.product.price_pence, item.qty,
              item.product.price_pence)

\* The OrderItem checkout creates for a cart item, lines 38-45.
Snapshot(item) ==
    OrderItem(item.product.name, item.product.sku, item.product.price_pence, item.qty,
              LineTotal(item))

\* Mutant: the pieces of an order line are taken off the stock at checkout.
StockReserved(item) ==
    [stock EXCEPT ![item.product.sku] = Max(@ - item.qty, 0)]

\* The stock after checkout has created the OrderItem of a cart item:
\* OrderItem.objects.create writes no Product row.
StockKept(item) == stock

\* checkout, lines 37-45: one OrderItem.objects.create per pass of the loop.
CreateItem(u) ==
    /\ co[u].pc = "create_item"
    /\ stock' = StockKept(co[u].items[co[u].idx])
    /\ items' = [items EXCEPT ![co[u].order] = Append(@, Snapshot(co[u].items[co[u].idx]))]
    /\ decrements' = [decrements EXCEPT ![co[u].order] = Append(@, 0)]
    /\ co' = [co EXCEPT ![u] = IF co[u].idx < Len(co[u].items)
                                THEN [co[u] EXCEPT !.idx = @ + 1]
                                ELSE [co[u] EXCEPT !.pc = "clear", !.idx = 0]]
    /\ UNCHANGED <<orders, webhook_secret, serial, req, stock0, paid_commits,
                   created, order_meta, products, cart, page, gateway, stripe_secret_key,
                   admin_acts>>

\* checkout, lines 47-49: cart.clear() and the redirect to the confirmation.
ClearCart(u) ==
    /\ co[u].pc = "clear"
    /\ cart' = [cart EXCEPT ![u] = <<>>]
    /\ co' = [co EXCEPT ![u] = DoneCheckout(co[u], "redirect:order_confirmation", "")]
    /\ UNCHANGED <<orders, items, stock, webhook_secret, serial, req, stock0, paid_commits,
                   decrements, created, order_meta, products, page, gateway,
                   stripe_secret_key, admin_acts>>

\* checkout, lines 30-45: Order.objects.create or an OrderItem.objects.create
\* raises a database error. checkout opens no transaction, so the rows the
\* earlier statements created are committed and stay; the exception leaves the
\* view (a 500 response) before cart.clear().
CreateFails(u) ==
    /\ co[u].pc \in {"create_order", "create_item"}
    /\ co' = [co EXCEPT ![u] = DoneCheckout(co[u], "500", "")]
    /\ UNCHANGED <<orders, items, stock, webhook_secret, serial, req, stock0, paid_commits,
                   decrements, created, order_meta, products, cart, page, gateway,
                   stripe_secret_key, admin_acts>>

checkout(u) ==
    \/ ListItems(u)
    \/ TotalAndPreflight(u)
    \/ CreateOrder(u)
    \/ CreateItem(u)
    \/ ClearCart(u)

\* The response to a request for a page.
Page(view, response) == [view |-> view, response |-> response]

\* ------------------------------------------------------ the cart methods
\* The position of pid's entry in the cart; 0 when pid has no entry.
IndexOf(entries, pid) ==
    IF \E i \in DOMAIN entries : entries[i].pid = pid
    THEN CHOOSE i \in DOMAIN entries : entries[i].pid = pid
    ELSE 0

\* self._data.pop(pid, None)
Pop(entries, pid) == SelectSeq(entries, LAMBDA e : e.pid # pid)

\* Mutant: add keeps an entry whose quantity fell to zero or below.
CartAddKeeps(entries, pid, qty) ==
    IF IndexOf(entries, pid) = 0 THEN Append(entries, CartLine(pid, qty))
    ELSE [entries EXCEPT ![IndexOf(entries, pid)].qty = @ + qty]

\* Cart.add: a missing entry starts at 0, qty is added to it, and an entry
\* that is then at zero or below is popped.
CartAdd(entries, pid, qty) ==
    LET started == IF IndexOf(entries, pid) = 0 THEN Append(entries, CartLine(pid, 0))
                   ELSE entries
        summed == [started EXCEPT ![IndexOf(started, pid)].qty = @ + qty]
    IN IF summed[IndexOf(summed, pid)].qty <= 0 THEN Pop(summed, pid) ELSE summed

\* Cart.set_qty: qty <= 0 pops the entry, any other qty replaces it.
CartSetQty(entries, pid, qty) ==
    IF qty <= 0 THEN Pop(entries, pid)
    ELSE IF IndexOf(entries, pid) = 0 THEN Append(entries, CartLine(pid, qty))
    ELSE [entries EXCEPT ![IndexOf(entries, pid)] = CartLine(pid, qty)]

\* Cart.count_items: the sum of the entries' "qty".
RECURSIVE CountItems(_, _)
CountItems(entries, i) ==
    IF i > Len(entries) THEN 0 ELSE entries[i].qty + CountItems(entries, i + 1)

\* The quantities a caller passes, and the largest quantity of one entry.
CartQtys == (0 - MaxStored)..MaxStored
Storable(entries) == \A i \in DOMAIN entries : entries[i].qty <= MaxStored

\* The session's cart becomes entries; nothing else changes.
SaveCart(u, entries) ==
    /\ Storable(entries)
    /\ cart' = [cart EXCEPT ![u] = entries]
    /\ UNCHANGED <<orders, items, stock, webhook_secret, serial, req, stock0, paid_commits,
                   decrements, created, order_meta, products, co, page, gateway,
                   stripe_secret_key, admin_acts>>

add(u, pid, qty) == SaveCart(u, CartAdd(cart[u], pid, qty))

set_qty(u, pid, qty) == SaveCart(u, CartSetQty(cart[u], pid, qty))

remove(u, pid) == SaveCart(u, Pop(cart[u], pid))

clear(u) == SaveCart(u, <<>>)

\* The pieces of the armour set, in the order armour_set.pieces.all() yields them.
ArmourPieces == <<"X", "Y">>

\* Mutant: mode "missing" does not look at the cart.
AlreadyInCartIgnored(mode, pid, in_cart_ids) == FALSE

\* mode == "missing" and str(p.id) in in_cart_ids
AlreadyInCart(mode, pid, in_cart_ids) == mode = "missing" /\ pid \in in_cart_ids

\* The loop of armour_set_add_to_cart from piece i on: inactive pieces, pieces
\* out of stock and (mode "missing") pieces in the cart at the start of the
\* request are skipped, one of every other piece is added.
RECURSIVE AddPieces(_, _, _, _)
AddPieces(entries, mode, in_cart_ids, i) ==
    IF i > Len(ArmourPieces) THEN entries
    ELSE IF \/ ~products[ArmourPieces[i]].exists
            \/ ~products[ArmourPieces[i]].is_active
            \/ stock[ArmourPieces[i]] <= 0
            \/ AlreadyInCart(mode, ArmourPieces[i], in_cart_ids)
         THEN AddPieces(entries, mode, in_cart_ids, i + 1)
         ELSE AddPieces(CartAdd(entries, ArmourPieces[i], 1), mode, in_cart_ids, i + 1)

\* The first message armour_set_add_to_cart leaves for the customer, from
\* the mode and the number of pieces it added.
AddedMessage(mode, added) ==
    IF mode = "missing"
    THEN (IF added > 0 THEN "Added missing piece(s)"
          ELSE "All available pieces are already in your basket")
    ELSE (IF added > 0 THEN "Added piece(s)" ELSE "")

\* catalog/views.py, armour_set_add_to_cart with POST field mode.
armour_set_add_to_cart(u, mode) ==
    LET entries == AddPieces(cart[u], mode, {cart[u][i].pid : i \in DOMAIN cart[u]}, 1)
    IN /\ Storable(entries)
       /\ cart' = [cart EXCEPT ![u] = entries]
       /\ page' = Page("armour_set_add_to_cart",
                       AddedMessage(mode, CountItems(entries, 1) - CountItems(cart[u], 1)))
       /\ UNCHANGED <<orders, items, stock, webhook_secret, serial, req, stock0, paid_commits,
                      decrements, created, order_meta, products, co, gateway,
                      stripe_secret_key, admin_acts>>

\* ------------------------------------------------------ the payment pages

\* get_object_or_404(Order, id=order_id, user=request.user) finds the order.
Owns(u, order_id) == order_id \in created /\ order_meta[order_id].user = u

\* start_checkout, lines 25-39, ahead of the gateway call. Order has no field
\* stripe_session_url (orders/models.py), so reading it on a PLACED order at
\* line 38 raises AttributeError, whatever reset is (`not reset` comes after
\* it), and the request is answered 500.
StartRefused(u, order_id, reset) ==
    /\ \/ ~Owns(u, order_id) /\ page' = Page("start_checkout", "404")
       \/ /\ Owns(u, order_id)
          /\ orders[order_id].status = PAID \/ ~stripe_secret_key
          /\ page' = Page("start_checkout", "redirect:order_confirmation")
       \/ /\ Owns(u, order_id)
          /\ orders[order_id].status = PLACED /\ stripe_secret_key
          /\ page' = Page("start_checkout", "500:AttributeError")
    /\ UNCHANGED <<orders, items, stock, webhook_secret, serial, req, stock0, paid_commits,
                   decrements, created, order_meta, products, cart, co, gateway,
                   stripe_secret_key, admin_acts>>

\* start_checkout, lines 42-75, for an order that is neither PAID nor PLACED:
\* stripe.checkout.Session.create raises, or it creates a session and
\* order.save(update_fields=[..., "stripe_session_url"]) raises ValueError
\* because Order has no such field; either way the order row is not written,
\* the exception is not caught and the request is answered 500.
StartSession(u, order_id, reset) ==
    /\ Owns(u, order_id)
    /\ orders[order_id].status \notin {PAID, PLACED}
    /\ stripe_secret_key
    /\ \/ /\ UNCHANGED gateway
          /\ page' = Page("start_checkout", "500:StripeError")
       \/ /\ gateway[order_id] < MaxSessions
          /\ gateway' = [gateway EXCEPT ![order_id] = @ + 1]
          /\ page' = Page("start_checkout", "500:ValueError")
    /\ UNCHANGED <<orders, items, stock, webhook_secret, serial, req, stock0, paid_commits,
                   decrements, created, order_meta, products, cart, co, stripe_secret_key,
                   admin_acts>>

\* start_checkout for the order order_id, with ?reset=1 or without.
start_checkout(u, order_id, reset) ==
    StartRefused(u, order_id, reset) \/ StartSession(u, order_id, reset)

\* payment_success: the order is looked up and the page rendered.
payment_success(u, order_id) ==
    /\ page' = Page("payment_success", IF Owns(u, order_id) THEN "render:order" ELSE "render")
    /\ UNCHANGED <<orders, items, stock, webhook_secret, serial, req, stock0, paid_commits,
                   decrements, created, order_meta, products, cart, co, gateway,
                   stripe_secret_key, admin_acts>>

\* payment_cancel: the order is looked up and the page rendered.
payment_cancel(u, order_id) ==
    /\ page' = Page("payment_cancel", IF Owns(u, order_id) THEN "render:order" ELSE "render")
    /\ UNCHANGED <<orders, items, stock, webhook_secret, serial, req, stock0, paid_commits,
                   decrements, created, order_meta, products, cart, co, gateway,
                   stripe_secret_key, admin_acts>>

\* ---------------------------------------------------- the product actions
\* The prices the admin types into the action form.
AdminPrices == {4}

\* Mutant: the OrderItems of the selected products follow the new price.
ItemsRepriced(queryset, price) ==
    [o \in Orders |->
        [i \in DOMAIN items[o] |->
            IF items[o][i].sku \in queryset
            THEN [items[o][i] EXCEPT !.unit_price_pence = price,
                                     !.line_total_pence = price * items[o][i].qty]
            ELSE items[o][i]]]

\* OrderItem holds copies of the product's columns and no foreign key to
\* Product: an update of Product rows writes no OrderItem row.
ItemsKept(queryset, price) == items

\* The rows an UPDATE or DELETE of the selected products touches: it waits for
\* rows an open transaction has written and finds only rows that exist.
Unlocked(queryset) == \A s \in queryset : ~ProductLocked(0, s)
Selected(queryset) == {s \in queryset : products[s].exists}

\* catalog/admin.py, set_price_pence: queryset.update(price_pence=price).
set_price_pence(queryset, price) ==
    /\ admin_acts < MaxAdmin
    /\ Unlocked(queryset)
    /\ admin_acts' = admin_acts + 1
    /\ products' = [s \in ProductSKUs |->
                       IF s \in Selected(queryset)
                       THEN [products[s] EXCEPT !.price_pence = price]
                       ELSE products[s]]
    /\ items' = ItemsKept(queryset, price)
    /\ UNCHANGED <<orders, stock, webhook_secret, serial, req, stock0, paid_commits,
                   decrements, created, order_meta, cart, co, page, gateway,
                   stripe_secret_key>>

\* catalog/admin.py, publish_products and unpublish_products:
\* queryset.update(is_active=...).
set_active(queryset, is_active) ==
    /\ admin_acts < MaxAdmin
    /\ Unlocked(queryset)
    /\ admin_acts' = admin_acts + 1
    /\ products' = [s \in ProductSKUs |->
                       IF s \in Selected(queryset)
                       THEN [products[s] EXCEPT !.is_active = is_active]
                       ELSE products[s]]
    /\ UNCHANGED <<orders, items, stock, webhook_secret, serial, req, stock0, paid_commits,
                   decrements, created, order_meta, cart, co, page, gateway,
                   stripe_secret_key>>

\* catalog/admin.py, set_stock: queryset.update(stock_qty=stock).
set_stock(queryset, stock_qty) ==
    /\ admin_acts < MaxAdmin
    /\ Unlocked(queryset)
    /\ admin_acts' = admin_acts + 1
    /\ stock' = [s \in ProductSKUs |->
                    IF s \in Selected(queryset) THEN stock_qty ELSE stock[s]]
    /\ UNCHANGED <<orders, items, webhook_secret, serial, req, stock0, paid_commits,
                   decrements, created, order_meta, products, cart, co, page, gateway,
                   stripe_secret_key>>

\* The names the admin types into the change form.
AdminNames == {"Xiphos of Ash"}

\* ProductAdmin's change form, field name.
rename_product(sku, name) ==
    /\ admin_acts < MaxAdmin
    /\ Unlocked({sku})
    /\ products[sku].exists
    /\ admin_acts' = admin_acts + 1
    /\ products' = [products EXCEPT ![sku].name = name]
    /\ UNCHANGED <<orders, items, stock, webhook_secret, serial, req, stock0, paid_commits,
                   decrements, created, order_meta, cart, co, page, gateway,
                   stripe_secret_key>>

\* ProductAdmin's "delete selected" action: the rows are deleted; no Order or
\* OrderItem row refers to them.
delete_products(queryset) ==
    /\ admin_acts < MaxAdmin
    /\ Unlocked(queryset)
    /\ Selected(queryset) # {}
    /\ admin_acts' = admin_acts + 1
    /\ products' = [s \in ProductSKUs |-> IF s \in queryset THEN NoRow ELSE products[s]]
    /\ UNCHANGED <<orders, items, stock, webhook_secret, serial, req, stock0, paid_commits,
                   decrements, created, order_meta, cart, co, page, gateway,
                   stripe_secret_key>>

\* The admin changes what the shop front shows of the selected products.
ProductAdmin ==
    \E queryset \in (SUBSET ProductSKUs) \ {{}} :
        \/ \E price \in AdminPrices : set_price_pence(queryset, price)
        \/ \E is_active \in BOOLEAN : set_active(queryset, is_active)

\* The steps of the webhook that need no failing database.
Deliver(r) ==
    \/ RejectNoSecret(r)
    \/ RejectInvalid(r)
    \/ AckOtherType(r)
    \/ AckUnresolvable(r)
    \/ ReadOrder(r)
    \/ SaveOrder(r)
    \/ ReadProduct(r)
    \/ SaveProduct(r)
    \/ Commit(r)

\* Concurrent deliveries, persistence failures and the admin.
Next ==
    \/ \E r \in Reqs : stripe_webhook(r)
    \/ \E queryset \in SUBSET Orders : mark_fulfilled(queryset)
    \/ \E o \in Orders : cancel_order(o)

Spec == Init /\ [][Next]_vars

\* Deliveries on a database that does not fail.
NextWebhook == \E r \in Reqs : Deliver(r)

\* Deliveries handled one after the other, on a database that does not fail.
SpecSeq == InitSerial /\ [][NextWebhook]_vars

\* Concurrent deliveries, on a database that does not fail.
SpecWebhook == Init /\ [][NextWebhook]_vars

\* Concurrent deliveries, on a database that may fail.
NextFaulty == \E r \in Reqs : stripe_webhook(r)

SpecFaulty == Init /\ [][NextFaulty]_vars

\* Concurrent deliveries of any verified event, on a database that may fail.
NextHostile == \E r \in Reqs : stripe_webhook(r) \/ RaiseUnhandled(r)

SpecHostile == Init /\ [][NextHostile]_vars

\* Deliveries on a database that does not fail, and the admin's status changes.
NextLifecycle ==
    \/ \E r \in Reqs : Deliver(r)
    \/ \E queryset \in SUBSET Orders : mark_fulfilled(queryset)
    \/ \E o \in Orders : cancel_order(o)

\* Deliveries handled one after the other, interleaved with the admin's
\* status changes.
SpecLifecycle == InitSerial /\ [][NextLifecycle]_vars

\* The carts of up to two entries: one entry of up to maxCart pieces of a
\* product, or one piece of a product followed by up to maxCart pieces of
\* the other.
Carts(maxCart) ==
    {<<>>}
      \cup {<<CartLine(s, q)>> : s \in ProductSKUs, q \in 1..maxCart}
      \cup {<<CartLine(st[1], 1), CartLine(st[2], q)>> :
               st \in {p \in ProductSKUs \X ProductSKUs : p[1] # p[2]}, q \in 1..maxCart}

\* The shop before any order exists: every product has the same stock, up to
\* maxStock, product X may be unpublished, and every user has a cart (the
\* second user one of carts2).
InitShopAt(maxCart, maxStock, keys, oneAtATime, carts2) ==
    /\ created = {}
    /\ orders = [o \in Orders |-> NoOrder]
    /\ order_meta = [o \in Orders |-> [user |-> "", total_pence |-> 0]]
    /\ items = [o \in Orders |-> <<>>]
    /\ \E n \in 0..maxStock : stock = [s \in ProductSKUs |-> n]
    /\ \E is_active \in BOOLEAN :
          products = [s \in ProductSKUs |->
                         [Listed(s) EXCEPT !.is_active = (s # "X") \/ is_active]]
    /\ cart \in [Users -> Carts(maxCart)]
    /\ cart["u2"] \in carts2
    /\ co = [u \in Users |-> IdleCheckout]
    /\ page = NoPage
    /\ gateway = [o \in Orders |-> 0]
    /\ stripe_secret_key \in keys
    /\ admin_acts = 0
    /\ serial = oneAtATime
    /\ req = [r \in Reqs |-> IdleReq]
    /\ stock0 = stock
    /\ paid_commits = [o \in Orders |-> 0]
    /\ decrements = [o \in Orders |-> <<>>]

\* The same with the webhook requests handled one at a time and the second
\* user's cart empty or holding one piece of X.
InitShopKey(maxCart, maxStock, keys) ==
    InitShopAt(maxCart, maxStock, keys, TRUE, {<<>>, <<CartLine("X", 1)>>})

\* The same with the secret key of the gateway configured.
InitShopWith(maxCart, maxStock) == InitShopKey(maxCart, maxStock, {TRUE})

InitCheckout ==
    /\ InitShopWith(MaxCart, MaxStock)
    /\ webhook_secret = TRUE

\* Concurrent checkouts, and the admin's product actions.
NextCheckout ==
    \/ \E u \in Users : checkout(u)
    \/ ProductAdmin

SpecCheckout == InitCheckout /\ [][NextCheckout]_vars

\* The shop front with the payment pages, the webhook and the admin's status
\* changes: the first user's cart has one entry, the second user's none, and
\* the webhook secret may be missing.
InitShop ==
    /\ InitShopWith(MaxCart, MaxStock)
    /\ Len(cart["u1"]) = 1
    /\ cart["u2"] = <<>>
    /\ webhook_secret \in BOOLEAN

\* Checkouts, the payment pages, one delivery on a database that does not
\* fail, and the admin's status changes.
NextShop ==
    \/ \E u \in Users : checkout(u)
    \/ \E u \in Users, order_id \in Orders, reset \in BOOLEAN :
           start_checkout(u, order_id, reset)
    \/ \E u \in Users, order_id \in Orders : payment_success(u, order_id)
    \/ \E u \in Users, order_id \in Orders : payment_cancel(u, order_id)
    \/ Deliver(1)
    \/ \E queryset \in SUBSET Orders : mark_fulfilled(queryset)
    \/ \E o \in Orders : cancel_order(o)

SpecShop == InitShop /\ [][NextShop]_vars

\* Concurrent checkouts on a database that may fail.
NextCheckoutFaulty == \E u \in Users : checkout(u) \/ CreateFails(u)

SpecCheckoutFaulty == InitCheckout /\ [][NextCheckoutFaulty]_vars

\* One customer's checkout of product X in a catalog the admin edits, with one
\* delivery; the webhook secret may be missing.
InitCatalog ==
    /\ InitShopWith(MaxCart, MaxStock)
    /\ \A s \in ProductSKUs : products[s].is_active
    /\ Len(cart["u1"]) = 1 /\ cart["u1"][1].pid = "X"
    /\ cart["u2"] = <<>>
    /\ webhook_secret \in BOOLEAN

\* Checkouts, session creations, one delivery on a database that does not
\* fail, every change the admin can make to a product, and the admin's
\* cancellations.
NextCatalog ==
    \/ \E u \in Users : checkout(u)
    \/ \E u \in Users, order_id \in Orders, reset \in BOOLEAN :
           start_checkout(u, order_id, reset)
    \/ Deliver(1)
    \/ \E queryset \in (SUBSET ProductSKUs) \ {{}} :
          \/ \E price \in AdminPrices : set_price_pence(queryset, price)
          \/ \E is_active \in BOOLEAN : set_active(queryset, is_active)
          \/ \E stock_qty \in 0..MaxStock : set_stock(queryset, stock_qty)
          \/ delete_products(queryset)
    \/ \E sku \in ProductSKUs, name \in AdminNames : rename_product(sku, name)
    \/ \E o \in Orders : cancel_order(o)

SpecCatalog == InitCatalog /\ [][NextCatalog]_vars

\* One customer's checkout, with or without the gateway's secret key and the
\* webhook secret.
InitPayments ==
    /\ InitShopKey(MaxCart, MaxStock, BOOLEAN)
    /\ Len(cart["u1"]) = 1
    /\ cart["u2"] = <<>>
    /\ webhook_secret \in BOOLEAN

\* Checkouts, session creations, one delivery on a database that does not
\* fail, and the admin's status changes.
NextPayments ==
    \/ \E u \in Users : checkout(u)
    \/ \E u \in Users, order_id \in Orders, reset \in BOOLEAN :
           start_checkout(u, order_id, reset)
    \/ Deliver(1)
    \/ \E queryset \in SUBSET Orders : mark_fulfilled(queryset)
    \/ \E o \in Orders : cancel_order(o)

SpecPayments == InitPayments /\ [][NextPayments]_vars

\* Two customers who want the same number of pieces of product X, and
\* webhook requests handled concurrently.
InitStock ==
    /\ InitShopAt(MaxCart, MaxStock, {TRUE}, FALSE, Carts(MaxCart))
    /\ \A s \in ProductSKUs : products[s].is_active
    /\ Len(cart["u1"]) = 1 /\ cart["u1"][1].pid = "X"
    /\ cart["u2"] = cart["u1"]
    /\ webhook_secret \in BOOLEAN

\* Concurrent checkouts and concurrent deliveries on a database that does not
\* fail.
NextStock ==
    \/ \E u \in Users : checkout(u)
    \/ \E r \in Reqs : Deliver(r)

SpecStock == InitStock /\ [][NextStock]_vars

\* The carts of two sessions; what the catalog has in stock plays no part.
InitCart ==
    /\ InitShopWith(MaxCart, 0)
    /\ webhook_secret = TRUE

\* The cart methods, called with any product and any quantity.
NextCart ==
    \/ \E u \in Users, pid \in ProductSKUs, qty \in CartQtys : add(u, pid, qty)
    \/ \E u \in Users, pid \in ProductSKUs, qty \in CartQtys : set_qty(u, pid, qty)
    \/ \E u \in Users, pid \in ProductSKUs : remove(u, pid)
    \/ \E u \in Users : clear(u)

SpecCart == InitCart /\ [][NextCart]_vars

\* The carts, with the stock of the catalog.
InitArmour ==
    /\ InitShopWith(MaxCart, MaxStock)
    /\ webhook_secret = TRUE

\* The armour set's add-to-cart, the removal of a cart entry and the admin's
\* product actions.
NextArmour ==
    \/ \E u \in Users, mode \in {"all", "missing"} : armour_set_add_to_cart(u, mode)
    \/ \E u \in Users, pid \in ProductSKUs : remove(u, pid)
    \/ \E queryset \in (SUBSET ProductSKUs) \ {{}}, stock_qty \in 0..MaxStock :
           set_stock(queryset, stock_qty)
    \/ \E queryset \in (SUBSET ProductSKUs) \ {{}}, is_active \in BOOLEAN :
           set_active(queryset, is_active)

SpecArmour == InitArmour /\ [][NextArmour]_vars

\* Only the first request is delivered, for stocks and quantities up to ClampMax.
InitClamp ==
    /\ InitWith(ClampMax, ClampMax, TRUE)
    /\ webhook_secret

NextClamp ==
    \/ ReadOrder(1)
    \/ SaveOrder(1)
    \/ ReadProduct(1)
    \/ SaveProduct(1)
    \/ Commit(1)

SpecClamp == InitClamp /\ [][NextClamp]_vars

TypeOK ==
    /\ \A o \in Orders : orders[o].status \in Status
    /\ \A s \in ProductSKUs : stock[s] \in Nat
    /\ webhook_secret \in BOOLEAN /\ serial \in BOOLEAN
    /\ \A r \in Reqs : /\ req[r].response \in {0, 200, 400, 500}
                       /\ req[r].pc \in {"idle", "save_order", "read_product",
                                         "save_product", "commit", "done"}
                       /\ req[r].event \in Events \cup MalformedEvents \cup {NoEvent}

\* ---------------------------------------------------------------- claims
\* The quantity the lines of order o from line i on ask of sku.
RECURSIVE SumQty(_, _, _)
SumQty(lines, sku, i) ==
    IF i > Len(lines) THEN 0
    ELSE (IF lines[i].sku = sku THEN lines[i].qty ELSE 0) + SumQty(lines, sku, i + 1)

\* The stocks `base` with qty taken off sku, not below zero.
TakenOff(base, qty) ==
    [s \in ProductSKUs |-> IF base[s] >= qty[s] THEN base[s] - qty[s] ELSE 0]

\* The stocks `base` after the lines of order o were taken off once.
OnceDecremented(base, o) ==
    TakenOff(base, [s \in ProductSKUs |-> SumQty(items[o], s, 1)])

\* Request r carries a checkout.session.completed event naming order o, which
\* construct_event verifies against the configured secret.
CompletionFor(r, o) ==
    /\ webhook_secret
    /\ req[r].event.verification = "ok"
    /\ req[r].event.type = "checkout.session.completed"
    /\ req[r].event.order_id = o

\* Request r was answered.
Answered(r) == req[r].pc = "done"

\* The lines of order o whose SKU has a product.
ResolvingLines(o) == {i \in DOMAIN items[o] : items[o][i].sku \in ProductSKUs}

\* The orders whose status is PAID.
PaidOrders == {o \in Orders : orders[o].status = "paid"}

\* The quantity the lines of the PAID orders o, o + 1, ... ask of sku.
RECURSIVE PaidQty(_, _)
PaidQty(sku, o) ==
    IF o > NumOrders THEN 0
    ELSE (IF o \in PaidOrders THEN SumQty(items[o], sku, 1) ELSE 0) + PaidQty(sku, o + 1)

\* C1, in every state: deliveries handled one after the other leave the order
\* they name PAID and are answered 200, however many there were; no line was
\* decremented more than once; and the stocks are the initial stocks with the
\* lines of every PAID order taken off exactly once.
C1_State ==
    /\ \A o \in Orders, r \in Reqs :
          CompletionFor(r, o) /\ Answered(r) =>
              req[r].response = 200 /\ orders[o].status = "paid"
    /\ \A o \in Orders : \A i \in DOMAIN items[o] : decrements[o][i] <= 1
    /\ stock = TakenOff(stock0, [s \in ProductSKUs |-> PaidQty(s, 1)])

\* C1, in every step: a delivery for an order that is PAID is answered 200 at
\* once and changes no order and no stock.
C1_Step ==
    \A o \in Orders, r \in Reqs :
        (req[r].pc = "idle" /\ req'[r].pc # "idle" /\ (CompletionFor(r, o))'
            /\ orders[o].status = "paid")
        => /\ req'[r].pc = "done"
           /\ req'[r].response = 200
           /\ orders' = orders
           /\ stock' = stock

\* C1: sequential idempotence of stripe_webhook. Delivering the same verified
\* completion event for a PLACED order twice in sequence leaves the order PAID
\* after either delivery, decrements each line's stock exactly once (the
\* second delivery changes no stock, status or Stripe identifier) and both
\* deliveries are answered 200.
C1_SequentialIdempotence == []C1_State /\ [][C1_Step]_vars

\* C1 witness: two answered deliveries for one order, one decrement.
C1_Witness ==
    \E o \in Orders, r1, r2 \in Reqs :
        /\ r1 # r2
        /\ CompletionFor(r1, o) /\ Answered(r1) /\ req[r1].response = 200
        /\ CompletionFor(r2, o) /\ Answered(r2) /\ req[r2].response = 200
        /\ orders[o].status = "paid"
        /\ decrements[o][1] = 1
        /\ stock["X"] = stock0["X"] - 1

\* C2: when two or more deliveries of the completion event of one PLACED order
\* run concurrently, each line's stock is decremented exactly once in total.
\* Stated for the states in which every request is an answered delivery for
\* the same order.
C2_ConcurrentExactlyOnce ==
    \A o \in Orders :
        (\A r \in Reqs : CompletionFor(r, o) /\ Answered(r))
        => stock = OnceDecremented(stock0, o)

\* The orders a committed transition has moved to PAID.
EverPaid == {o \in Orders : paid_commits[o] > 0}

\* The quantity the lines of the orders o, o + 1, ... ever paid ask of sku.
RECURSIVE EverPaidQty(_, _)
EverPaidQty(sku, o) ==
    IF o > NumOrders THEN 0
    ELSE (IF o \in EverPaid THEN SumQty(items[o], sku, 1) ELSE 0) + EverPaidQty(sku, o + 1)

\* C3: over any sequence of verified completion-event deliveries interleaved
\* with administrative status changes (PAID to FULFILLED by mark_fulfilled, a
\* move to CANCELLED), an order decrements the stock of each line's SKU at
\* most once: no stock is lower than the initial stock with the lines of
\* every order that was paid taken off once.
C3_AtMostOncePerOrder ==
    \A s \in ProductSKUs :
        stock[s] >= TakenOff(stock0, [t \in ProductSKUs |-> EverPaidQty(t, 1)])[s]

\* The edges of the Order.status state machine.
StatusEdges == {<<"draft", "placed">>, <<"placed", "paid">>, <<"paid", "fulfilled">>,
                <<"placed", "cancelled">>, <<"paid", "cancelled">>}

\* C4: Order.status only moves along DRAFT to PLACED, PLACED to PAID, PAID to
\* FULFILLED and PLACED or PAID to CANCELLED; a completion event delivered
\* for a CANCELLED, FULFILLED or DRAFT order never sets it to PAID.
C4_StatusEdgesOnly ==
    [][\A o \in Orders :
          orders'[o].status # orders[o].status
          => <<orders[o].status, orders'[o].status>> \in StatusEdges]_vars

\* C5, in every committed state: an order no committed transition has paid is
\* PLACED or CANCELLED and none of its lines is decremented; an order that was
\* paid has every line whose SKU has a product decremented once per committed
\* transition, and no other line; with no transition committed the stocks
\* are the initial ones, and with one transition committed they are the
\* initial ones with all lines of its order taken off.
C5_State ==
    /\ \A o \in Orders :
          /\ o \notin EverPaid => orders[o].status \in {"placed", "cancelled"}
          /\ orders[o].status = "paid" => o \in EverPaid
          /\ \A i \in DOMAIN items[o] :
                decrements[o][i] = IF i \in ResolvingLines(o) THEN paid_commits[o] ELSE 0
    /\ EverPaid = {} => stock = stock0
    /\ \A o \in Orders :
          EverPaid = {o} /\ paid_commits[o] = 1 => stock = OnceDecremented(stock0, o)

\* C5, in every step: a request that ends in a persistence failure inside the
\* transition leaves every order and every stock as it was.
C5_Step ==
    \A r \in Reqs :
        (req[r].pc \notin {"idle", "done"} /\ req'[r].pc = "done" /\ req'[r].response = 500)
        => orders' = orders /\ stock' = stock

\* C5: atomicity of the paid transition. In every committed state the status
\* change and the decrements of an order are applied together or not at all,
\* and a persistence failure at any step inside the transition leaves status
\* and stocks as they were before the delivery.
C5_AtomicTransition == []C5_State /\ [][C5_Step]_vars

\* C5 witness: a request failed inside the transition of an order that is
\* still PLACED, while the three-line order was paid with both of its
\* resolving lines decremented.
C5_Witness ==
    \E r \in Reqs, o \in Orders, p \in Orders :
        /\ Answered(r) /\ req[r].response = 500 /\ CompletionFor(r, o)
        /\ orders[o].status = "placed"
        /\ orders[p].status = "paid"
        /\ decrements[p] = <<1, 0, 1>>
        /\ stock["X"] = stock0["X"] - 1
        /\ stock["Y"] = stock0["Y"] - 1

\* The identifiers a first delivery with session object `session` leaves on an
\* order stored as `order`.
ExpectedSessionId(order, session) ==
    IF session.id = Absent THEN order.stripe_session_id ELSE session.id

ExpectedPaymentIntentId(order, session) ==
    IF session.payment_intent = Absent THEN order.stripe_payment_intent_id
    ELSE IF session.payment_intent = None THEN ""
    ELSE session.payment_intent

\* C6, in every step: a delivery that names a PLACED order enters the
\* transition, and the transition's commit sets that order to PAID with the
\* event's identifiers (the stored one where the event has none, and the empty
\* string for a null payment intent), takes every line's quantity off its
\* SKU's stock, not below zero, leaves every other order alone and is
\* answered 200.
C6_Step ==
    \A o \in Orders, r \in Reqs :
        /\ (req[r].pc = "idle" /\ req'[r].pc # "idle" /\ (CompletionFor(r, o))'
               /\ orders[o].status = "placed")
           => req'[r].pc = "save_order"
        /\ (req[r].pc = "commit" /\ req'[r].pc = "done" /\ CompletionFor(r, o))
           => /\ orders'[o] = [status |-> "paid",
                               stripe_session_id |->
                                   ExpectedSessionId(orders[o], req[r].session),
                               stripe_payment_intent_id |->
                                   ExpectedPaymentIntentId(orders[o], req[r].session)]
              /\ \A p \in Orders \ {o} : orders'[p] = orders[p]
              /\ stock' = OnceDecremented(stock, o)
              /\ req'[r].response = 200

\* C6, in every state: an answered delivery for an order was answered 200 and
\* the order is PAID.
C6_State ==
    \A o \in Orders, r \in Reqs :
        CompletionFor(r, o) /\ Answered(r) =>
            req[r].response = 200 /\ paid_commits[o] = 1 /\ orders[o].status = "paid"

C7_FloorClamp ==
    /\ \A s \in ProductSKUs : stock[s] >= 0
    /\ \A r \in Reqs :
          /\ req[r].pc = "commit" =>
                \A i \in req[r].w_lines :
                    LET item == items[req[r].event.order_id][i]
                    IN req[r].w_stock[item.sku] =
                           IF stock0[item.sku] >= item.qty
                           THEN stock0[item.sku] - item.qty ELSE 0
          /\ \A o \in Orders :
                CompletionFor(r, o) /\ Answered(r) =>
                    /\ req[r].response = 200
                    /\ orders[o].status = "paid"
                    /\ \A i \in ResolvingLines(o) :
                          stock[items[o][i].sku] =
                              IF stock0[items[o][i].sku] >= items[o][i].qty
                              THEN stock0[items[o][i].sku] - items[o][i].qty ELSE 0

\* C7 witness: a line asked for more than the stock held, the stock is 0 and
\* the order is PAID.
C7_Witness ==
    \E o \in Orders, r \in Reqs :
        /\ CompletionFor(r, o) /\ Answered(r) /\ req[r].response = 200
        /\ orders[o].status = "paid"
        /\ stock0["X"] > 0
        /\ items[o][1].qty > stock0["X"] + 1
        /\ stock["X"] = 0

\* Request r is one construct_event raises on.
Refused(r) == req[r].event.verification \in {"ValueError", "SignatureVerificationError"}

\* C8: a request whose signature verification fails or whose payload is
\* invalid is answered 400, in one step that changes no order (status,
\* Stripe identifiers) and no stock.
C8_InvalidRejected ==
    /\ [](\A r \in Reqs : Refused(r) => Answered(r) /\ req[r].response = 400)
    /\ [][\A r \in Reqs :
             req'[r] # req[r] /\ Refused(r)' => orders' = orders /\ stock' = stock]_vars

\* C8 witness: with a secret configured, a request with a bad signature was
\* answered 400 while an order is still PLACED.
C8_Witness ==
    \E r \in Reqs :
        /\ webhook_secret
        /\ req[r].event.verification = "SignatureVerificationError"
        /\ req[r].response = 400
        /\ \E o \in Orders : orders[o].status = "placed"

\* C9: with no webhook secret configured every request is answered 400 before
\* any event is handled, whatever it carries, and no request changes an order
\* or a stock.
C9_NoSecretRejectsAll ==
    /\ [](~webhook_secret =>
             \A r \in Reqs : /\ req[r].pc \in {"idle", "done"}
                             /\ Answered(r) => req[r].response = 400)
    /\ [][~webhook_secret /\ req' # req => orders' = orders /\ stock' = stock]_vars

\* C9 witness: without a secret, a request carrying a well-signed completion
\* event for an order was answered 400 and the order is PLACED.
C9_Witness ==
    \E r \in Reqs :
        /\ ~webhook_secret
        /\ Answered(r) /\ req[r].response = 400
        /\ req[r].event = [verification |-> "ok", type |-> "checkout.session.completed",
                           order_id |-> 1]
        /\ orders[1].status = "placed"

\* Request r carries a verified event of a type other than
\* checkout.session.completed.
OtherType(r) ==
    /\ webhook_secret
    /\ req[r].event.verification = "ok"
    /\ req[r].event.type # "checkout.session.completed"

\* C10: forward compatibility. A verified event of any type other than
\* checkout.session.completed is answered 200, in one step that leaves every
\* order (status, Stripe identifiers) and every stock unchanged.
C10_OtherTypesIgnored ==
    /\ [](\A r \in Reqs : OtherType(r) => Answered(r) /\ req[r].response = 200)
    /\ [][\A r \in Reqs :
             req'[r] # req[r] /\ OtherType(r)' => orders' = orders /\ stock' = stock]_vars

\* C10 witness: an event of another type that names a PLACED order was
\* answered 200 and the order is still PLACED.
C10_Witness ==
    \E r \in Reqs, o \in Orders :
        /\ OtherType(r) /\ Answered(r) /\ req[r].response = 200
        /\ req[r].event.order_id = o
        /\ orders[o].status = "placed"

\* Request r carries a verified completion event whose order_id is missing or
\* empty (0), or the id of no order.
Unresolvable(r) ==
    /\ webhook_secret
    /\ req[r].event.verification = "ok"
    /\ req[r].event.type = "checkout.session.completed"
    /\ req[r].event.order_id >= 0
    /\ req[r].event.order_id \notin Orders

HasMissingSKU(o) == \E i \in DOMAIN items[o] : items[o][i].sku \notin {"X", "Y"}

\* C12, in every state: an answered delivery for an order with a line whose
\* SKU matches no product was answered 200 and the order is PAID; that line
\* was never decremented and every other line was decremented once; the
\* stocks are the initial ones with the lines of the PAID orders taken off.
C12_State ==
    /\ \A o \in Orders, r \in Reqs :
          CompletionFor(r, o) /\ Answered(r) /\ HasMissingSKU(o) =>
              /\ req[r].response = 200
              /\ orders[o].status = "paid"
              /\ \A i \in DOMAIN items[o] :
                    decrements[o][i] = IF items[o][i].sku \in {"X", "Y"} THEN 1 ELSE 0
    /\ \A s \in {"X", "Y"} :
          LET asked == PaidQty(s, 1)
          IN stock[s] = IF stock0[s] >= asked THEN stock0[s] - asked ELSE 0

\* C12, in every step: at a line whose SKU matches no product the loop moves
\* on to the next line (or to the commit after the last line) and writes no
\* stock.
C12_Step ==
    \A r \in Reqs :
        (req[r].pc = "read_product" /\ req'[r] # req[r]
            /\ items[req[r].event.order_id][req[r].idx].sku \notin {"X", "Y"})
        => /\ req'[r].w_stock = req[r].w_stock
           /\ req'[r].w_lines = req[r].w_lines
           /\ orders' = orders /\ stock' = stock
           /\ IF req[r].idx < Len(items[req[r].event.order_id])
              THEN req'[r].pc = "read_product" /\ req'[r].idx = req[r].idx + 1
              ELSE req'[r].pc = "commit"

\* C12: missing SKU at payment time. When a completion event is applied to a
\* PLACED order and some line's snapshotted SKU matches no product, the order
\* still becomes PAID, no stock is changed for that line, every other line
\* whose SKU resolves is still decremented, and the response is 200.
C12_MissingSKUSkipped == []C12_State /\ [][C12_Step]_vars

\* C12 witness: the order with the line for SKU Z is PAID, answered 200, its
\* first and third line were decremented and its second was not.
C12_Witness ==
    \E o \in Orders, r \in Reqs :
        /\ CompletionFor(r, o) /\ Answered(r) /\ req[r].response = 200
        /\ Len(items[o]) = 3 /\ items[o][2].sku = "Z" /\ items[o][2].qty > 0
        /\ orders[o].status = "paid"
        /\ decrements[o] = <<1, 0, 1>>
        /\ stock0["Y"] > 0 /\ stock["Y"] = stock0["Y"] - items[o][3].qty

\* C13: every path through stripe_webhook ends in a response that is success
\* (200) or client error (400), whatever the event carries and whatever the
\* database does.
C13_StructuredResponses ==
    \A r \in Reqs : Answered(r) => req[r].response \in {200, 400}

\* C15: when the requests are answered deliveries for pairwise distinct PLACED
\* orders that contain SKU X, processed concurrently, the stock of X ends at
\* max(max(s - q1, 0) - q2, 0), as if they were processed one after the other.
C15_NoLostDecrement ==
    \A o1, o2 \in Orders, r1, r2 \in Reqs :
        (/\ o1 # o2 /\ r1 # r2
         /\ CompletionFor(r1, o1) /\ Answered(r1) /\ req[r1].response = 200
         /\ CompletionFor(r2, o2) /\ Answered(r2) /\ req[r2].response = 200
         /\ \A o \in Orders : paid_commits[o] = IF o \in {o1, o2} THEN 1 ELSE 0)
        => LET s == stock0["X"]
               q1 == SumQty(items[o1], "X", 1)
               q2 == SumQty(items[o2], "X", 1)
               first == IF s >= q1 THEN s - q1 ELSE 0
           IN stock["X"] = IF first >= q2 THEN first - q2 ELSE 0

\* Request r waits for a row lock that the open transaction of request q holds:
\* the row of its order, or the row of the product it is about to save.
WaitsFor(r, q) ==
    \/ /\ req[r].pc = "save_order"
       /\ req[q].wrote_order
       /\ req[q].event.order_id = req[r].event.order_id
    \/ /\ req[r].pc = "save_product"
       /\ req[q].w_stock[items[req[r].event.order_id][req[r].idx].sku] # -1

\* C16: isolation. A delivery never waits for a lock held by a delivery for
\* another order.
C16_Isolation ==
    \A r, q \in Reqs :
        r # q /\ WaitsFor(r, q) => req[r].event.order_id = req[q].event.order_id

\* The orders that belong to user u.
OrdersOf(u) == {o \in created : order_meta[o].user = u}

\* C17, in every step: a checkout request, GET or POST, that arrives while
\* every entry of the user's cart names an unpublished product (or the cart
\* has no entry) is redirected to the product list in that step, which
\* creates no Order and no OrderItem and leaves the cart as it was.
C17_Step ==
    \A u \in Users :
        (/\ co[u].pc = "idle" /\ co'[u].pc # "idle"
         /\ \A i \in DOMAIN cart[u] : ~products[cart[u][i].pid].is_active)
        => /\ co'[u].pc = "done"
           /\ co'[u].response = "redirect:product_list"
           /\ created' = created /\ orders' = orders /\ order_meta' = order_meta
           /\ items' = items
           /\ cart' = cart

\* C17, in every state: a request whose cart yielded no items was answered
\* with that redirect, and its user has no order.
C17_State ==
    \A u \in Users :
        co[u].pc # "idle" /\ co[u].items = <<>> =>
            /\ co[u].pc = "done"
            /\ co[u].response = "redirect:product_list"
            /\ co[u].order = 0
            /\ OrdersOf(u) = {}

\* C17: empty cart. checkout (GET or POST) with a cart that yields no items
\* creates no Order and no OrderItem and redirects away; the set of orders is
\* the same after the request as before it.
C17_EmptyCart == []C17_State /\ [][C17_Step]_vars

\* C17 witness: a POST with a cart whose only entry names an unpublished
\* product was redirected to the product list; the cart still has the entry
\* and no order exists.
C17_Witness ==
    \E u \in Users :
        /\ co[u].pc = "done" /\ co[u].method = "POST"
        /\ co[u].response = "redirect:product_list"
        /\ Len(cart[u]) = 1
        /\ created = {}

\* The first line of a list of cart items that asks for more than the stock
\* observed for its product.
Offending(list) ==
    {i \in DOMAIN list :
        /\ list[i].qty > list[i].product.stock_qty
        /\ \A j \in 1..(i - 1) : list[j].qty <= list[j].product.stock_qty}

\* C18, in every step: a POST that reaches the stock check with a line asking
\* for more than the observed stock is redirected to the cart, names the
\* product of the first such line, creates no Order and no OrderItem and
\* leaves the cart as it was.
C18_Step ==
    \A u \in Users :
        (/\ co[u].pc = "total" /\ co'[u].pc # "total" /\ co[u].method = "POST"
         /\ Offending(co[u].items) # {})
        => /\ co'[u].pc = "done"
           /\ co'[u].response = "redirect:cart_detail"
           /\ \A i \in Offending(co[u].items) : co'[u].named = co[u].items[i].product.name
           /\ created' = created /\ orders' = orders /\ order_meta' = order_meta
           /\ items' = items
           /\ cart' = cart

\* C18, in every state: every order was created by a request all of whose
\* lines ask for no more than the observed stock, and a user turned away by
\* the stock check has no order and the cart the request found.
C18_State ==
    /\ \A o \in created :
          \A i \in DOMAIN co[order_meta[o].user].items :
              LET item == co[order_meta[o].user].items[i]
              IN item.qty <= item.product.stock_qty
    /\ \A u \in Users :
          co[u].response = "redirect:cart_detail" =>
              OrdersOf(u) = {} /\ cart[u] = co[u].data

\* C18: insufficient stock. A checkout POST in which at least one cart line
\* has qty greater than the observed stock of its product creates no Order
\* and no OrderItem, leaves the cart contents unchanged, and reports the first
\* offending line's product; an order is created only when every line
\* satisfies qty <= stock.
C18_InsufficientStock == []C18_State /\ [][C18_Step]_vars

\* C18 witness: a POST whose first line is in stock and whose second is not
\* was redirected to the cart naming the second line's product.
C18_Witness ==
    \E u \in Users :
        /\ co[u].response = "redirect:cart_detail"
        /\ Len(co[u].items) = 2
        /\ co[u].items[1].qty <= co[u].items[1].product.stock_qty
        /\ co[u].named = co[u].items[2].product.name
        /\ cart[u] # <<>>
        /\ created = {}

\* C19, in every state: a checkout answered with the redirect to the order
\* confirmation has created the one order of its user, PLACED, with one
\* OrderItem per listed cart line, in the cart's order, carrying the line's
\* product name, SKU, unit price, qty and line total, and the cart is empty;
\* no order is DRAFT.
C19_State ==
    /\ \A u \in Users :
          co[u].response = "redirect:order_confirmation" =>
              /\ co[u].method = "POST" /\ co[u].items # <<>>
              /\ OrdersOf(u) = {co[u].order}
              /\ orders[co[u].order].status = "placed"
              /\ DOMAIN items[co[u].order] = DOMAIN co[u].items
              /\ \A i \in DOMAIN co[u].items :
                    LET item == co[u].items[i]
                    IN items[co[u].order][i] =
                           [product_name |-> item.product.name,
                            sku |-> item.product.sku,
                            unit_price_pence |-> item.product.price_pence,
                            qty |-> item.qty,
                            line_total_pence |-> item.product.price_pence * item.qty]
              /\ cart[u] = <<>>
    /\ \A o \in created : orders[o].status = "placed"

\* C19, in every step: a POST that reaches the stock check with every line
\* in stock goes on to create the order.
C19_Step ==
    \A u \in Users :
        (/\ co[u].pc = "total" /\ co'[u].pc # "total" /\ co[u].method = "POST"
         /\ Offending(co[u].items) = {})
        => co'[u].pc = "create_order"

\* C19: successful checkout. A checkout POST with a non-empty cart that
\* passes the stock preflight creates exactly one Order with status PLACED
\* (never DRAFT) owned by the requesting user, creates exactly one OrderItem
\* per cart line carrying that line's product name, SKU, unit price, qty and
\* line total, and leaves the cart empty afterwards.
C19_SuccessfulCheckout == []C19_State /\ [][C19_Step]_vars

\* C19 witness: both users checked out; the first user's order has two
\* lines, the second of two pieces.
C19_Witness ==
    /\ \A u \in Users : co[u].response = "redirect:order_confirmation"
    /\ Len(items[co["u1"].order]) = 2
    /\ items[co["u1"].order][2].qty = 2
    /\ co["u1"].order # co["u2"].order

\* C20: order total invariant. For every order checkout has finished creating,
\* Order.total_pence is the sum of its OrderItems' line_total_pence, and every
\* OrderItem has line_total_pence = unit_price_pence * qty, whatever the admin
\* changed of the products in between.
C20_TotalIsSumOfLines ==
    \A u \in Users :
        co[u].response = "redirect:order_confirmation" =>
            /\ order_meta[co[u].order].total_pence = Total(items[co[u].order], 1)
            /\ \A i \in DOMAIN items[co[u].order] :
                  items[co[u].order][i].line_total_pence =
                      items[co[u].order][i].unit_price_pence * items[co[u].order][i].qty

\* C14, in every step: an order's status becomes PAID only in the step that
\* commits the transaction of a webhook request whose event passed the
\* signature verification, is of type checkout.session.completed and names
\* that order.
C14_Step ==
    \A o \in Orders :
        orders[o].status # "paid" /\ orders'[o].status = "paid" =>
            \E r \in Reqs :
                /\ req[r].pc = "commit" /\ req'[r].pc = "done"
                /\ webhook_secret
                /\ req[r].event.verification = "ok"
                /\ req[r].event.type = "checkout.session.completed"
                /\ req[r].event.order_id = o

\* C14, in every state: a PAID or FULFILLED order was paid by exactly one
\* committed webhook transaction, whatever page the customer landed on.
C14_State ==
    \A o \in Orders :
        orders[o].status \in {"paid", "fulfilled"} => paid_commits[o] = 1

QtyOf(entries, pid) ==
    IF \E i \in DOMAIN entries : entries[i].pid = pid
    THEN (CHOOSE e \in {entries[i] : i \in DOMAIN entries} : e.pid = pid).qty
    ELSE 0

\* The quantities the cart stores for the products of S, summed.
RECURSIVE StoredQty(_, _)
StoredQty(entries, S) ==
    IF S = {} THEN 0
    ELSE LET pid == CHOOSE x \in S : TRUE
         IN QtyOf(entries, pid) + StoredQty(entries, S \ {pid})

\* C25, in every step: armour_set_add_to_cart in mode "missing" leaves the
\* quantity of every piece that was in the cart, and every active piece in
\* stock that was not in the cart ends with quantity 1; in either mode a
\* piece that is inactive or out of stock keeps the quantity it had (none,
\* when it was not in the cart).
C25_Step ==
    \A u \in Users, mode \in {"all", "missing"} :
        armour_set_add_to_cart(u, mode) =>
            \A i \in DOMAIN ArmourPieces :
                LET pid == ArmourPieces[i]
                    before == QtyOf(cart[u], pid)
                    after == QtyOf(cart'[u], pid)
                    available == products[pid].is_active /\ stock[pid] > 0
                IN /\ mode = "missing" /\ before > 0 => after = before
                   /\ mode = "missing" /\ before = 0 /\ available => after = 1
                   /\ ~available => after = before

\* C25: adding an armour set to the cart in mode "missing" never increases
\* the quantity of a piece that is already in the cart, every active in-stock
\* piece not yet in the cart ends with quantity 1, and inactive or
\* out-of-stock pieces are never added in either mode.
C25_ArmourSetAddMissing == [][C25_Step]_vars

\* C25 witness: a request in mode "missing" has added piece Y to the cart
\* that held two of piece X, which still holds two of X.
C25_Witness ==
    /\ page = [view |-> "armour_set_add_to_cart", response |-> "Added missing piece(s)"]
    /\ cart["u1"] = <<CartLine("X", 2), CartLine("Y", 1)>>
    /\ cart["u2"] = <<>>

\* C30, in every state: every stored entry has qty >= 1, no product has two
\* entries, and count_items is the sum of the stored quantities.
C30_State ==
    \A u \in Users :
        /\ \A i \in DOMAIN cart[u] : cart[u][i].qty >= 1
        /\ \A i, j \in DOMAIN cart[u] : cart[u][i].pid = cart[u][j].pid => i = j
        /\ CountItems(cart[u], 1) = StoredQty(cart[u], ProductSKUs)

\* C30, in every step: set_qty(p, q) with q >= 1 leaves exactly q for p,
\* remove(p) leaves no entry for p, and add, set_qty and remove leave the
\* entries of the other products and the other carts as they were.
C30_Step ==
    \A u \in Users, pid \in ProductSKUs :
        /\ \A qty \in CartQtys :
              set_qty(u, pid, qty) /\ qty >= 1 => QtyOf(cart'[u], pid) = qty
        /\ remove(u, pid) => \A i \in DOMAIN cart'[u] : cart'[u][i].pid # pid
        /\ (\/ remove(u, pid)
            \/ \E qty \in CartQtys : add(u, pid, qty) \/ set_qty(u, pid, qty))
           => /\ \A other \in ProductSKUs \ {pid} :
                    QtyOf(cart'[u], other) = QtyOf(cart[u], other)
              /\ \A v \in Users \ {u} : cart'[v] = cart[v]

\* C30: cart invariant. After any sequence of Cart.add, Cart.set_qty,
\* Cart.remove and Cart.clear with any integer quantities, every entry stored
\* in the cart has qty >= 1, count_items equals the sum of the stored
\* quantities, set_qty(p, q) with q >= 1 leaves exactly q for p, remove(p)
\* leaves no entry for p, and none of these operations changes the entry of
\* another product.
C30_CartInvariant == []C30_State /\ [][C30_Step]_vars

\* C30 witness: a cart that was emptied holds again an entry of three pieces
\* after one of two, the other user's cart holding one piece.
C30_Witness ==
    /\ cart["u1"] = <<CartLine("Y", 3), CartLine("X", 2)>>
    /\ cart["u2"] = <<CartLine("X", 1)>>

\* C21: checkout is all-or-nothing. An Order created by checkout exists
\* together with all of its OrderItems, one per cart line, in every state the
\* request has left behind; when persisting the order or an item fails part-way, neither the Order nor
\* any of its OrderItems remains and the cart is not cleared.
C21_AllOrNothing ==
    /\ \A o \in created :
          co[order_meta[o].user].pc = "done" =>
              DOMAIN items[o] = DOMAIN co[order_meta[o].user].items
    /\ \A u \in Users :
          co[u].response = "500" =>
              /\ OrdersOf(u) = {}
              /\ \A o \in Orders : order_meta[o].user = u => items[o] = <<>>
              /\ cart[u] = co[u].data

\* C22, in every step: a step that is not a step of the checkout creating the
\* order leaves every OrderItem of the order and the order's total_pence as
\* they were.
C22_Step ==
    \A o \in created :
        co'[order_meta[o].user] = co[order_meta[o].user] =>
            /\ o \in created'
            /\ items'[o] = items[o]
            /\ order_meta'[o] = order_meta[o]

\* C22: snapshot immutability. Once an order is created, no later change to a
\* live product (price edit, rename, deactivation, stock change, deletion) and
\* no webhook delivery or payment operation changes any OrderItem's
\* product_name, sku, unit_price_pence, qty or line_total_pence, nor the
\* order's total_pence.
C22_SnapshotImmutable == [][C22_Step]_vars

\* C22 witness: an order is PAID whose line shows a unit price and a name its
\* product no longer has.
C22_Witness ==
    \E o \in created :
        /\ orders[o].status = "paid"
        /\ co[order_meta[o].user].response = "redirect:order_confirmation"
        /\ \/ products[items[o][1].sku].price_pence # items[o][1].unit_price_pence
           \/ products[items[o][1].sku].name # items[o][1].product_name

\* A request for start_checkout of user u's order o in a step.
Starts(u, o) == \E reset \in BOOLEAN : start_checkout(u, o, reset)

\* C23: session creation is idempotent per order. start_checkout for a PLACED
\* order that holds a stored session, without reset, redirects to the stored
\* session, creates no session at the gateway and changes no field of the
\* order; a call with reset=1, or for an order with no stored session, creates
\* a fresh session at the gateway, stores its identifiers in the order and
\* redirects to it, unless the gateway fails.
C23_Step ==
    \A u \in Users, o \in Orders, reset \in BOOLEAN :
        (/\ start_checkout(u, o, reset)
         /\ Owns(u, o) /\ orders[o].status = "placed" /\ stripe_secret_key)
        => IF orders[o].stripe_session_id # "" /\ ~reset
           THEN /\ page'.response = "redirect:session"
                /\ gateway' = gateway
                /\ orders' = orders
           ELSE \/ /\ page'.response = "redirect:session"
                   /\ gateway'[o] = gateway[o] + 1
                   /\ orders'[o].stripe_session_id # ""
                   /\ orders'[o].status = "placed"
                \/ /\ page'.response = "500:StripeError"
                   /\ gateway' = gateway
                   /\ orders' = orders

C23_SessionIdempotent == [][C23_Step]_vars

\* C24: a gateway failure leaves the order untouched. When start_checkout
\* finds no secret key configured, or the gateway's session creation fails,
\* the failure is reported to the customer (the request does not end in an
\* unhandled exception), the order row is unchanged and no stock changes.
C24_Step ==
    \A u \in Users, o \in Orders :
        (/\ Starts(u, o)
         /\ Owns(u, o) /\ orders[o].status # "paid"
         /\ ~stripe_secret_key \/ page'.response = "500:StripeError")
        => /\ page'.response \notin {"500:StripeError", "500:AttributeError", "500:ValueError"}
           /\ orders' = orders
           /\ stock' = stock

C24_GatewayFailure == [][C24_Step]_vars

\* C26: start_checkout creates a gateway session only for a PLACED order. For
\* an order in DRAFT, PAID, FULFILLED or CANCELLED no session is created at
\* the gateway and no Stripe field of the order is written.
C26_Step ==
    \A u \in Users, o \in Orders :
        Starts(u, o) /\ Owns(u, o) /\ orders[o].status # "placed"
        => gateway' = gateway /\ orders' = orders

C26_SessionOnlyForPlaced == [][C26_Step]_vars

\* C29, in every step: mark_fulfilled on a selection moves the selected PAID
\* orders to FULFILLED and leaves every other order row, the Stripe
\* identifiers of every order and all stock as they were.
C29_Step ==
    \A queryset \in SUBSET Orders :
        mark_fulfilled(queryset) =>
            /\ \A o \in Orders :
                  /\ orders'[o].status =
                         (IF o \in queryset /\ orders[o].status = "paid"
                          THEN "fulfilled" ELSE orders[o].status)
                  /\ orders'[o].stripe_session_id = orders[o].stripe_session_id
                  /\ orders'[o].stripe_payment_intent_id = orders[o].stripe_payment_intent_id
            /\ stock' = stock

\* C29, in every state: a FULFILLED order was PAID by a committed webhook
\* transaction.
C29_State == \A o \in Orders : orders[o].status = "fulfilled" => paid_commits[o] >= 1

C27_State ==
    /\ \A s \in ProductSKUs : stock[s] >= 0
    /\ \A r \in Reqs, s \in ProductSKUs : req[r].w_stock[s] >= -1

\* C27, in every step: a verified completion event for an existing order that
\* is answered 200 leaves that order PAID.
C27_Step ==
    \A r \in Reqs :
        (/\ req[r].pc # "done"
         /\ req'[r].pc = "done"
         /\ req'[r].response = 200
         /\ req'[r].event.verification = "ok"
         /\ req'[r].event.type = COMPLETED
         /\ req'[r].event.order_id \in created)
            => orders'[req'[r].event.order_id].status = PAID

\* C27: after any interleaving of checkouts, session creations and webhook
\* deliveries, two orders that both passed the preflight for the same last
\* units of a product and are both paid included, every product's stock_qty is
\* at least 0 and every order whose completion was acknowledged is PAID.
C27_StockNonNegative == []C27_State /\ [][C27_Step]_vars

\* C27 witness: one X was in stock, two orders of one X each were placed and both
\* were paid; the stock is 0.
C27_Witness ==
    /\ stock0["X"] = 1
    /\ {1, 2} \subseteq created
    /\ \A o \in {1, 2} :
          /\ orders[o].status = PAID
          /\ paid_commits[o] = 1
          /\ Len(items[o]) = 1 /\ items[o][1].sku = "X" /\ items[o][1].qty = 1
    /\ stock["X"] = 0

\* C28, in every step: a step of checkout or of start_checkout leaves every
\* product's stock as it was, and a step that lowers a product's stock is the
\* commit of a delivery that found its order not PAID and leaves it PAID.
C28_Step ==
    /\ \A u \in Users : checkout(u) => stock' = stock
    /\ \A u \in Users, order_id \in Orders, reset \in BOOLEAN :
          start_checkout(u, order_id, reset) => stock' = stock
    /\ (\E s \in ProductSKUs : stock'[s] < stock[s]) =>
          \E r \in Reqs :
              /\ req[r].pc = "commit" /\ req'[r].pc = "done"
              /\ orders[req[r].event.order_id].status # PAID
              /\ orders'[req[r].event.order_id].status = PAID

\* C28: the stock preflight is not a reservation: checkout and start_checkout
\* leave every product's stock_qty unchanged whether they succeed or fail; of the
\* operations on orders only a webhook delivery that moves an order to PAID
\* lowers any stock.
C28_PreflightNoReservation == [][C28_Step]_vars

\* C28 witness: an order of two X was placed while two were in stock and
\* start_checkout was answered for it; the stock is still two.
C28_Witness ==
    /\ co["u1"].pc = "done" /\ co["u1"].response = "redirect:order_confirmation"
    /\ 1 \in created /\ orders[1].status = PLACED
    /\ Len(items[1]) = 1 /\ items[1][1].sku = "X" /\ items[1][1].qty = 2
    /\ page.view = "start_checkout" /\ page.response = "500:AttributeError"
    /\ stock["X"] = 2 /\ stock0["X"] = 2

====
